---- MODULE Spec2Model ----
(***************************************************************************)
(* State-machine model of the N-body simulation session of astrotherasus:  *)
(* the ReboundEngine wrapper (src/rebound_engine.py) and the WebSocket     *)
(* control loop that drives one engine per connection                      *)
(* (src/websocket_server.py), with the scenario lookup of                  *)
(* src/ai_scenario_generator.py.                                            *)
(*                                                                         *)
(* Representation.                                                         *)
(*  - Python None is the record None; dicts are records, `k in d` is       *)
(*    k \in DOMAIN d and d.get(k, v) is Get(d, k, v); lists are sequences. *)
(*  - Simulation time is counted in ticks of 0.0025 yr, so every           *)
(*    t_per_frame the sources set is a whole number of ticks               *)
(*    (0.01 = 4, 0.005 = 2).  Float arithmetic is modelled exactly; a tick *)
(*    is a multiple of 1e-6, so round(t, 6) changes no time of the model.  *)
(*  - The numerical integrator (the rebound package) is an external        *)
(*    service.  A particle is the state it was added with; its state at    *)
(*    time t is determined by that and by sim.t.  integrate either reaches *)
(*    the requested time or raises, leaving a faulted simulation; the      *)
(*    energy error it accumulates is abstracted to zero / non-zero.        *)
(***************************************************************************)
EXTENDS Integers, Sequences, FiniteSets, TLC

\* ------------------------------------------------------------------ bounds
\* Steps are taken only while the simulation time stays within MaxT ticks.
MaxT == 8
\* At most MaxInbox control messages are delivered and not yet received.
MaxInbox == 2
\* n_frames arguments of a direct step(n) call: 1 .. MaxN.
MaxN == 2

\* ------------------------------------------------------- program constants
\* ReboundEngine.__init__ and load_scenario's default: t_per_frame = 0.01.
DefaultTPerFrame == 4
\* load_from_horizons, the websocket's default and the generator's default:
\* t_per_frame = 0.005.
HorizonsTPerFrame == 2

\* ------------------------------------------------------------ Python values
None == [tag |-> "None"]
EmptyDict == [k \in {} |-> 0]
Get(d, k, default) == IF k \in DOMAIN d THEN d[k] ELSE default
Abs(a) == IF a < 0 THEN -a ELSE a

\* ---------------------------------------------------------------- scenarios
Star ==
  [name |-> "Star", mass |-> 1000, x |-> 0, y |-> 0, vx |-> 0, vy |-> 0,
   color |-> "#fff200", radius |-> 20, type |-> "star"]
Planet ==
  [name |-> "Planet", mass |-> 1, x |-> 1, y |-> 0, vx |-> 0, vy |-> 6,
   color |-> "#4fffb0", radius |-> 5, type |-> "planet"]

\* A scenario as generate_scenario_from_text returns it: the bodies the
\* service produced, and the defaults the generator fills in.
AiScenario ==
  [name |-> "Binary", description |-> "generated", units |-> "solar",
   integrator |-> "ias15", t_per_frame |-> HorizonsTPerFrame, scale |-> 180,
   bodies |-> <<Star, Planet>>]

\* KNOWN_SCENARIOS["solar system"]: named bodies fetched from Horizons.
SolarSystem ==
  [name |-> "Solar System",
   description |-> "Real solar system - Sun + 8 planets from NASA Horizons",
   use_horizons |-> <<"Sun", "Mercury", "Venus", "Earth", "Mars", "Jupiter",
                      "Saturn", "Uranus", "Neptune">>,
   integrator |-> "whfast", t_per_frame |-> HorizonsTPerFrame, scale |-> 45]

\* A scenario dict that sets no t_per_frame and no scale (load_scenario's
\* defaults apply).
BareScenario == [name |-> "Bare", bodies |-> <<Star, Planet>>]

\* get_scenario(request): a built-in scenario whose key occurs in the
\* request, else the generation service's result `ai`.
get_scenario(request, ai) ==
  IF request = "solar system"
  THEN [ok |-> TRUE, scenario |-> SolarSystem, source |-> "builtin"]
  ELSE IF ai.ok THEN [ok |-> TRUE, scenario |-> ai.scenario, source |-> "ai"]
       ELSE ai

\* What generate_scenario_from_text can return.
AiResults ==
  { [ok |-> TRUE, scenario |-> AiScenario],
    [ok |-> FALSE, error |-> "No JSON found in response"] }

\* ------------------------------------------------------- integrator service
\* rebound.Simulation()
NewSimulation ==
  [tag |-> "Simulation", t |-> 0, particles |-> <<>>, integrator |-> "ias15",
   err |-> 0, faulted |-> FALSE]

\* sim.energy(): zero for fewer than two bodies at rest in the centre-of-mass
\* frame, else the (negative) energy of the initial state plus the
\* integrator's accumulated error.
energy(sim) == IF Len(sim.particles) < 2 THEN 0 ELSE sim.err - 1

\* sim.integrate(target): the simulations it can leave behind.  ok: the time
\* is exactly target, and the energy carries an integration error once the
\* state was advanced.  Raised: the simulation is faulted; of the times it
\* can have stopped at, the model keeps the one where it stopped at once.
integrate(sim, target) ==
  { [raised |-> FALSE,
     sim |-> [sim EXCEPT !.t = target,
                         !.err = IF target = sim.t THEN sim.err ELSE 1]] }
  \cup
  { [raised |-> TRUE, sim |-> [sim EXCEPT !.faulted = TRUE]] }

\* ------------------------------------------------------------ ReboundEngine
\* ReboundEngine.__init__
NewEngine ==
  [tag |-> "ReboundEngine", sim |-> None, meta |-> EmptyDict, bodies |-> <<>>,
   initial_scenario |-> None, body_info |-> <<>>,
   t_per_frame |-> DefaultTPerFrame, scale |-> 1, E0 |-> 0]

EmptyFrame == [t |-> 0, N |-> 0, bodies |-> <<>>, energy_drift |-> 0]

\* get_frame with N counted from body_info instead of sim.N.
get_frame_counts_info(e) ==
  IF e.sim = None THEN EmptyFrame
  ELSE [t |-> e.sim.t, N |-> Len(e.body_info),
        bodies |-> [i \in 1..Len(e.sim.particles) |->
                     [name |-> <<"Body", i - 1>>, state |-> e.sim.particles[i],
                      at |-> e.sim.t, color |-> "#ffffff", radius |-> 5,
                      type |-> "planet"]],
        energy_drift |-> 0]

\* ReboundEngine.get_frame
get_frame(e) ==
  IF e.sim = None THEN EmptyFrame
  ELSE LET ps == e.sim.particles
           info(i) == IF i <= Len(e.body_info) THEN e.body_info[i] ELSE EmptyDict
           E_now == energy(e.sim)
       IN [t |-> e.sim.t,
           N |-> Len(ps),
           bodies |-> [i \in 1..Len(ps) |->
                        [name   |-> Get(info(i), "name", <<"Body", i - 1>>),
                         state  |-> ps[i],
                         at     |-> e.sim.t,
                         color  |-> Get(info(i), "color", "#ffffff"),
                         radius |-> Get(info(i), "radius", 5),
                         type   |-> Get(info(i), "type", "planet")]],
           energy_drift |-> IF e.E0 # 0 THEN Abs(E_now - e.E0) ELSE 0]

\* The particle sim.add registers for body b, and the rendering entry.
Particle(b) ==
  [m |-> Get(b, "mass", 1), x |-> Get(b, "x", 0), y |-> Get(b, "y", 0),
   vx |-> Get(b, "vx", 0), vy |-> Get(b, "vy", 0)]
BodyInfo(b, i) ==
  [name |-> Get(b, "name", <<"Body", i - 1>>), color |-> Get(b, "color", "#ffffff"),
   radius |-> Get(b, "radius", 5), type |-> Get(b, "type", "planet")]

\* load_scenario leaving t_per_frame as the engine had it.
load_scenario_keeping_speed(e, scenario) ==
  LET integrator == Get(scenario, "integrator", "ias15")
      e1 == [e EXCEPT !.sim = [NewSimulation EXCEPT !.integrator = integrator],
                      !.scale = Get(scenario, "scale", 200)]
  IN IF "bodies" \notin DOMAIN scenario
     THEN [raised |-> "KeyError", eng |-> e1, frame |-> None]
     ELSE LET bs == scenario.bodies
              sim2 == [e1.sim EXCEPT
                         !.particles = [i \in 1..Len(bs) |-> Particle(bs[i])]]
              e2 == [e1 EXCEPT
                       !.meta = [name |-> Get(scenario, "name", "Simulation"),
                                 description |-> Get(scenario, "description", ""),
                                 integrator |-> integrator,
                                 units |-> Get(scenario, "units", "solar"),
                                 N |-> Len(bs)],
                       !.body_info = [i \in 1..Len(bs) |-> BodyInfo(bs[i], i)],
                       !.sim = sim2,
                       !.E0 = energy(sim2),
                       !.initial_scenario = scenario]
          IN [raised |-> "", eng |-> e2, frame |-> get_frame(e2)]

\* ReboundEngine.load_scenario.  A scenario with no "bodies" key raises
\* KeyError while self.meta is built: the fresh simulation, t_per_frame and
\* scale are already assigned, the rest is as before the call.
load_scenario(e, scenario) ==
  LET integrator == Get(scenario, "integrator", "ias15")
      e1 == [e EXCEPT !.sim = [NewSimulation EXCEPT !.integrator = integrator],
                      !.t_per_frame = Get(scenario, "t_per_frame", DefaultTPerFrame),
                      !.scale = Get(scenario, "scale", 200)]
  IN IF "bodies" \notin DOMAIN scenario
     THEN [raised |-> "KeyError", eng |-> e1, frame |-> None]
     ELSE LET bs == scenario.bodies
              sim2 == [e1.sim EXCEPT
                         !.particles = [i \in 1..Len(bs) |-> Particle(bs[i])]]
              e2 == [e1 EXCEPT
                       !.meta = [name |-> Get(scenario, "name", "Simulation"),
                                 description |-> Get(scenario, "description", ""),
                                 integrator |-> integrator,
                                 units |-> Get(scenario, "units", "solar"),
                                 N |-> Len(bs)],
                       !.body_info = [i \in 1..Len(bs) |-> BodyInfo(bs[i], i)],
                       !.sim = sim2,
                       !.E0 = energy(sim2),
                       !.initial_scenario = scenario]
          IN [raised |-> "", eng |-> e2, frame |-> get_frame(e2)]

\* BODY_STYLES.get(name, default) of load_from_horizons, for the names the
\* model loads (the planets' entries differ in colour and radius only).
BodyStyle(name) ==
  IF name = "Sun"
  THEN [color |-> "#fff200", radius |-> 22, type |-> "star", mass_hint |-> 1]
  ELSE IF name = "Earth"
       THEN [color |-> "#4fffb0", radius |-> 7, type |-> "planet"]
       ELSE [color |-> "#aaaaaa", radius |-> 5, type |-> "planet"]

\* {**a, **b}
Merge(a, b) ==
  [k \in DOMAIN a \cup DOMAIN b |-> IF k \in DOMAIN b THEN b[k] ELSE a[k]]

\* ReboundEngine.load_from_horizons.  fetched is the number of names the
\* ephemeris service answered before one fetch failed (all of them: no
\* failure); a failed sim.add raises out of the loop.
load_from_horizons(e, body_names, integrator, fetched) ==
  LET k == IF fetched < Len(body_names) THEN fetched ELSE Len(body_names)
      sim1 == [NewSimulation EXCEPT
                 !.integrator = integrator,
                 !.particles = [i \in 1..k |-> [horizons |-> body_names[i]]]]
      e1 == [e EXCEPT
               !.sim = sim1,
               !.body_info = [i \in 1..k |->
                                Merge([name |-> body_names[i]],
                                      BodyStyle(body_names[i]))]]
  IN IF k < Len(body_names)
     THEN [raised |-> "HorizonsError", eng |-> e1, frame |-> None]
     ELSE LET e2 == [e1 EXCEPT
                       !.E0 = energy(sim1),
                       !.t_per_frame = HorizonsTPerFrame,
                       !.scale = 200,
                       !.meta = [name |-> body_names,
                                 description |-> "Real NASA Horizons data",
                                 integrator |-> integrator,
                                 units |-> "solar",
                                 N |-> Len(body_names)],
                       !.initial_scenario = [use_horizons |-> body_names,
                                             integrator |-> integrator]]
          IN [raised |-> "", eng |-> e2, frame |-> get_frame(e2)]

\* ReboundEngine.reset
reset(e) ==
  IF e.initial_scenario # None
  THEN load_scenario(e, e.initial_scenario)
  ELSE [raised |-> "",
        eng |-> [e EXCEPT !.sim = None, !.bodies = <<>>, !.body_info = <<>>,
                          !.E0 = 0],
        frame |-> None]

\* step integrating to n_frames * t_per_frame, without adding sim.t.
step_absolute(e, n_frames) ==
  IF e.sim = None
  THEN { [raised |-> "RuntimeError", eng |-> e, frame |-> None] }
  ELSE { IF o.raised
         THEN [raised |-> "IntegrationFault", eng |-> [e EXCEPT !.sim = o.sim],
               frame |-> None]
         ELSE [raised |-> "", eng |-> [e EXCEPT !.sim = o.sim],
               frame |-> get_frame([e EXCEPT !.sim = o.sim])]
         : o \in integrate(e.sim, e.t_per_frame * n_frames) }

\* step advancing one frame whatever n_frames is.
step_one_frame(e, n_frames) ==
  IF e.sim = None
  THEN { [raised |-> "RuntimeError", eng |-> e, frame |-> None] }
  ELSE { IF o.raised
         THEN [raised |-> "IntegrationFault", eng |-> [e EXCEPT !.sim = o.sim],
               frame |-> None]
         ELSE [raised |-> "", eng |-> [e EXCEPT !.sim = o.sim],
               frame |-> get_frame([e EXCEPT !.sim = o.sim])]
         : o \in integrate(e.sim, e.sim.t + e.t_per_frame) }

\* step without the check of self.sim: an unloaded engine answers with the
\* empty frame.
step_unguarded(e, n_frames) ==
  IF e.sim = None
  THEN { [raised |-> "", eng |-> e, frame |-> get_frame(e)] }
  ELSE { IF o.raised
         THEN [raised |-> "IntegrationFault", eng |-> [e EXCEPT !.sim = o.sim],
               frame |-> None]
         ELSE [raised |-> "", eng |-> [e EXCEPT !.sim = o.sim],
               frame |-> get_frame([e EXCEPT !.sim = o.sim])]
         : o \in integrate(e.sim, e.sim.t + e.t_per_frame * n_frames) }

\* ReboundEngine.step(n_frames): every outcome of the call.
step(e, n_frames) ==
  IF e.sim = None
  THEN { [raised |-> "RuntimeError", eng |-> e, frame |-> None] }
  ELSE { IF o.raised
         THEN [raised |-> "IntegrationFault", eng |-> [e EXCEPT !.sim = o.sim],
               frame |-> None]
         ELSE [raised |-> "", eng |-> [e EXCEPT !.sim = o.sim],
               frame |-> get_frame([e EXCEPT !.sim = o.sim])]
         : o \in integrate(e.sim, e.sim.t + e.t_per_frame * n_frames) }

\* get_orbital_elements giving up at the first failure: the entries so far.
get_orbital_elements_aborting(e, undefined) ==
  IF e.sim = None THEN <<>>
  ELSE IF Len(e.sim.particles) < 2 THEN <<>>
  ELSE LET ps == e.sim.particles
           name(i) == IF i <= Len(e.body_info) THEN e.body_info[i].name
                      ELSE <<"Body", i - 1>>
           ok == { j \in 1..(Len(ps) - 1) :
                     \A k \in 1..j : (k + 1) \notin undefined }
       IN [j \in 1..Cardinality(ok) |->
            [name |-> name(j + 1),
             orbit |-> [of |-> ps[j + 1], primary |-> ps[1], at |-> e.sim.t]]]

\* ReboundEngine.get_orbital_elements.  undefined is the set of particles
\* (list positions, the primary is 1) for which p.orbit raises; the elements
\* of the others are those of the particle's state relative to the primary's.
get_orbital_elements(e, undefined) ==
  IF e.sim = None THEN <<>>
  ELSE IF Len(e.sim.particles) < 2 THEN <<>>
  ELSE LET ps == e.sim.particles
           name(i) == IF i <= Len(e.body_info) THEN e.body_info[i].name
                      ELSE <<"Body", i - 1>>
       IN [j \in 1..(Len(ps) - 1) |->
            IF (j + 1) \in undefined
            THEN [name |-> name(j + 1), error |-> "orbit undefined"]
            ELSE [name |-> name(j + 1),
                  orbit |-> [of |-> ps[j + 1], primary |-> ps[1], at |-> e.sim.t]]]

\* get_trajectories, the sampling loop on the copy: steps step..n_points-1.
\* A sample is a particle of the copy and the copy's time when it was read.
RECURSIVE sample_loop(_, _, _, _, _, _)
sample_loop(sim_copy, t_copy, dt, step_, n_points, trajectories) ==
  IF step_ >= n_points
  THEN { [raised |-> "", sim |-> sim_copy, trajectories |-> trajectories] }
  ELSE UNION
    { IF o.raised
      THEN { [raised |-> "IntegrationFault", sim |-> o.sim,
              trajectories |-> trajectories] }
      ELSE sample_loop(o.sim, t_copy, dt, step_ + 1, n_points,
                       [i \in 1..Len(trajectories) |->
                          Append(trajectories[i],
                                 [of |-> o.sim.particles[i], at |-> o.sim.t])])
      : o \in integrate(sim_copy, t_copy + step_ * dt) }

\* get_trajectories integrating self.sim instead of a copy of it.
get_trajectories_in_place(e, duration, n_points) ==
  IF e.sim = None
  THEN { [raised |-> "", eng |-> e, frame |-> <<>>] }
  ELSE IF n_points = 0
  THEN { [raised |-> "ZeroDivisionError", eng |-> e, frame |-> None] }
  ELSE { [raised |-> r.raised, eng |-> [e EXCEPT !.sim = r.sim],
          frame |-> IF r.raised = "" THEN r.trajectories ELSE None]
         : r \in sample_loop(e.sim, e.sim.t, duration \div n_points, 0, n_points,
                             [i \in 1..Len(e.sim.particles) |-> <<>>]) }

\* ReboundEngine.get_trajectories(duration, n_points): every outcome of the
\* call.  The inputs of the model keep duration / n_points a whole number of
\* ticks.
get_trajectories(e, duration, n_points) ==
  IF e.sim = None
  THEN { [raised |-> "", eng |-> e, frame |-> <<>>] }
  ELSE IF n_points = 0
  THEN { [raised |-> "ZeroDivisionError", eng |-> e, frame |-> None] }
  ELSE { [raised |-> r.raised, eng |-> e,
          frame |-> IF r.raised = "" THEN r.trajectories ELSE None]
         : r \in sample_loop(e.sim, e.sim.t, duration \div n_points, 0, n_points,
                             [i \in 1..Len(e.sim.particles) |-> <<>>]) }

\* The outcomes of p.orbit over the particles of e that the model draws from:
\* no orbit undefined, the first non-primary body's, the last body's, every
\* body's.
OrbitOutcomes(e) ==
  IF e = None THEN {{}}
  ELSE IF e.sim = None THEN {{}}
  ELSE LET idx == 2..Len(e.sim.particles)
       IN {{}, idx, idx \cap {2}, idx \cap {Len(e.sim.particles)}}

\* ------------------------------------------------- websocket_sim: the state
VARIABLES
  engine,            \* local engine: None or a ReboundEngine
  playing,           \* local playing
  speed_multiplier,  \* local speed_multiplier
  fps,               \* local fps
  steps_per_frame,   \* local steps_per_frame
  frame,             \* local frame of the stepping loop; Unbound until assigned
  pending,           \* control messages delivered to the socket, not yet received
  pc,                \* "recv": at the receive of the loop; "sim": a message was
                     \* handled and the stepping block is next; "closed"
  ev,                \* history: what the last operation did
  gh                 \* history: last frame time sent, stop flag, loaded scenario

vars ==
  <<engine, playing, speed_multiplier, fps, steps_per_frame, frame, pending,
    pc, ev, gh>>

Unbound == [tag |-> "Unbound"]

\* The locals of websocket_sim as one record, and their values on entry.
Locals ==
  [engine |-> engine, playing |-> playing, speed_multiplier |-> speed_multiplier,
   fps |-> fps, steps_per_frame |-> steps_per_frame, frame |-> frame]
InitLocals ==
  [engine |-> None, playing |-> FALSE, speed_multiplier |-> 1, fps |-> 30,
   steps_per_frame |-> 2, frame |-> Unbound]

\* Server messages.
Status == [type |-> "status"]
Error == [type |-> "error"]
FrameMsg(f) == [type |-> "frame", data |-> f]
ScenarioMsg(e) == [type |-> "scenario", N |-> Len(e.sim.particles), scale |-> e.scale]
ElementsMsg(els) == [type |-> "elements", data |-> els]

\* Values a client can put in a message.
Multipliers == {0, 1, 2}
\* start messages: a built-in or a generated scenario; fps and
\* steps_per_frame left to their defaults (30, 2), or set (60, 0).
StartMessages ==
  { [action |-> "start", prompt |-> p] @@ o :
      p \in {"solar system", "binary star"},
      o \in {EmptyDict, [fps |-> 60, steps_per_frame |-> 0]} }

\* a / b * c in exact arithmetic.
MulDiv(a, b, c) == (a * c) \div b

\* --------------------------------------------- websocket_sim: the handlers
\* Each handler maps the locals L to its outcomes: the new locals, the
\* messages sent, the number of engine.step calls, and how control leaves:
\* "next" (on to the stepping block), "continue" or "raise".

\* action == "start"
on_start(L, msg, ai, fetched) ==
  LET L1 == [L EXCEPT !.fps = Get(msg, "fps", 30),
                      !.steps_per_frame = Get(msg, "steps_per_frame", 2)]
      result == get_scenario(Get(msg, "prompt", "solar system"), ai)
  IN IF ~result.ok
     THEN [L |-> L1, sent |-> <<Status, Error>>, steps |-> 0, exit |-> "continue"]
     ELSE
       LET scenario == result.scenario
           hz == "use_horizons" \in DOMAIN scenario
           ld == IF hz
                 THEN load_from_horizons(NewEngine, scenario.use_horizons,
                                         Get(scenario, "integrator", "whfast"),
                                         fetched)
                 ELSE load_scenario(NewEngine, scenario)
           e1 == IF hz
                 THEN [ld.eng EXCEPT
                         !.t_per_frame = Get(scenario, "t_per_frame", HorizonsTPerFrame),
                         !.scale = Get(scenario, "scale", 180)]
                 ELSE ld.eng
           e2 == [e1 EXCEPT !.t_per_frame = @ * L.speed_multiplier]
       IN IF ld.raised # ""
          THEN [L |-> [L1 EXCEPT !.engine = ld.eng], sent |-> <<Status, Status>>,
                steps |-> 0, exit |-> "raise"]
          ELSE [L |-> [L1 EXCEPT !.engine = e2, !.playing = TRUE],
                sent |-> <<Status, Status, ScenarioMsg(e2), FrameMsg(ld.frame)>>,
                steps |-> 0, exit |-> "next"]

\* action == "pause"
on_pause(L) ==
  [L |-> [L EXCEPT !.playing = FALSE], sent |-> <<Status>>, steps |-> 0,
   exit |-> "next"]

\* resume without the check of engine.
on_resume_unguarded(L) ==
  [L |-> [L EXCEPT !.playing = TRUE], sent |-> <<Status>>, steps |-> 0,
   exit |-> "next"]

\* action == "resume"
on_resume(L) ==
  IF L.engine # None
  THEN [L |-> [L EXCEPT !.playing = TRUE], sent |-> <<Status>>, steps |-> 0,
        exit |-> "next"]
  ELSE [L |-> L, sent |-> <<>>, steps |-> 0, exit |-> "next"]

\* action == "reset"
on_reset(L) ==
  IF L.engine # None
  THEN LET r == reset(L.engine)
       IN IF r.raised # ""
          THEN [L |-> [L EXCEPT !.engine = r.eng], sent |-> <<>>, steps |-> 0,
                exit |-> "raise"]
          ELSE [L |-> [L EXCEPT !.engine = r.eng, !.playing = FALSE],
                sent |-> <<FrameMsg(get_frame(r.eng)), Status>>, steps |-> 0,
                exit |-> "next"]
  ELSE [L |-> L, sent |-> <<>>, steps |-> 0, exit |-> "next"]

\* set_speed that also writes the new frame step into the stored scenario.
on_set_speed_in_scenario(L, mult, numeric) ==
  IF ~numeric
  THEN [L |-> L, sent |-> <<>>, steps |-> 0, exit |-> "raise"]
  ELSE IF L.engine # None /\ L.speed_multiplier = 0
  THEN [L |-> L, sent |-> <<>>, steps |-> 0, exit |-> "raise"]
  ELSE [L |-> [L EXCEPT
                 !.engine = IF L.engine # None
                            THEN [@ EXCEPT
                                    !.t_per_frame =
                                       MulDiv(@, L.speed_multiplier, mult),
                                    !.initial_scenario =
                                       [@ EXCEPT !.t_per_frame =
                                          MulDiv(@, L.speed_multiplier, mult)]]
                            ELSE @,
                 !.speed_multiplier = mult],
        sent |-> <<>>, steps |-> 0, exit |-> "next"]

\* action == "set_speed"; numeric says whether float(multiplier) succeeds.
on_set_speed(L, mult, numeric) ==
  IF ~numeric
  THEN [L |-> L, sent |-> <<>>, steps |-> 0, exit |-> "raise"]
  ELSE IF L.engine # None /\ L.speed_multiplier = 0
  THEN [L |-> L, sent |-> <<>>, steps |-> 0, exit |-> "raise"]
  ELSE [L |-> [L EXCEPT
                 !.engine = IF L.engine # None
                            THEN [@ EXCEPT !.t_per_frame =
                                    MulDiv(@, L.speed_multiplier, mult)]
                            ELSE @,
                 !.speed_multiplier = mult],
        sent |-> <<>>, steps |-> 0, exit |-> "next"]

\* action == "stop"
on_stop(L) ==
  [L |-> [L EXCEPT !.playing = FALSE, !.engine = None], sent |-> <<Status>>,
   steps |-> 0, exit |-> "next"]

\* The guard without playing.
stepping_unpaused(L) == L.engine # None

\* `if playing and engine:` the guard of the non-blocking receive and of the
\* stepping block.
stepping(L) == L.playing /\ L.engine # None

\* The stepping block's for loop: k more calls of engine.step(), each of
\* which may raise.  calls counts the calls made.
RECURSIVE step_loop(_, _, _, _)
step_loop(e, f, k, calls) ==
  IF k <= 0
  THEN { [eng |-> e, frame |-> f, raised |-> FALSE, calls |-> calls] }
  ELSE UNION { IF o.raised # ""
               THEN { [eng |-> o.eng, frame |-> f, raised |-> TRUE,
                       calls |-> calls + 1] }
               ELSE step_loop(o.eng, o.frame, k - 1, calls + 1)
               : o \in step(e, 1) }

\* `if playing and engine:` ... the stepping block, for one outcome r of its
\* loop.  A raise in the loop, an unbound frame and 1.0 / fps with fps = 0
\* all end in the block's except clause.
sim_block(L, r) ==
  LET L1 == [L EXCEPT !.engine = r.eng, !.frame = r.frame]
      stop(sent) == [L |-> [L1 EXCEPT !.playing = FALSE], sent |-> sent,
                     steps |-> r.calls, exit |-> "next"]
  IN IF r.raised THEN stop(<<Error>>)
     ELSE IF r.frame = Unbound THEN stop(<<Error>>)
     ELSE IF L.fps = 0 THEN stop(<<FrameMsg(r.frame), Error>>)
     ELSE [L |-> L1, sent |-> <<FrameMsg(r.frame)>>, steps |-> r.calls,
           exit |-> "next"]

\* action == "get_elements"
on_get_elements(L, undefined) ==
  IF L.engine # None
  THEN [L |-> L,
        sent |-> <<ElementsMsg(get_orbital_elements(L.engine, undefined))>>,
        steps |-> 0, exit |-> "next"]
  ELSE [L |-> L, sent |-> <<>>, steps |-> 0, exit |-> "next"]

\* --------------------------------------------- websocket_sim: the actions
\* -1 stands for "no simulation time": no engine, or an engine with sim None;
\* and for "no frame sent yet".
SimTime(e) == IF e = None THEN -1 ELSE IF e.sim = None THEN -1 ELSE e.sim.t
IsFaulted(e) == IF e = None THEN FALSE ELSE IF e.sim = None THEN FALSE ELSE e.sim.faulted
LastFrameTime(sent, before) ==
  LET idx == {i \in 1..Len(sent) : sent[i].type = "frame"}
  IN IF idx = {} THEN before
     ELSE sent[CHOOSE i \in idx : \A j \in idx : j <= i].data.t

\* What the history keeps of the state an operation started in.
Was ==
  [playing |-> playing, t |-> SimTime(engine), faulted |-> IsFaulted(engine),
   lastT |-> gh.lastT]

\* One handler or one stepping block has run with outcome o; pend messages
\* stay delivered and unreceived.  A raise leaves the loop through the outer
\* except clause, which reports the error and returns: the locals are gone.
Commit(act, o, pend) ==
  LET closing == o.exit = "raise"
      sent == IF closing THEN Append(o.sent, Error) ELSE o.sent
      L2 == IF closing THEN InitLocals ELSE o.L
  IN /\ engine' = L2.engine
     /\ playing' = L2.playing
     /\ speed_multiplier' = L2.speed_multiplier
     /\ fps' = L2.fps
     /\ steps_per_frame' = L2.steps_per_frame
     /\ frame' = L2.frame
     /\ pending' = IF closing THEN 0 ELSE pend
     /\ pc' = IF closing THEN "closed"
              ELSE IF act # "frame" /\ o.exit = "next" /\ stepping(L2)
                   THEN "sim" ELSE "recv"
     /\ ev' = [act |-> act, sent |-> sent, steps |-> o.steps,
               queued |-> IF act = "frame" THEN pend ELSE 0,
               exit |-> o.exit, was |-> Was]
     /\ gh' = [lastT |-> LastFrameTime(sent, gh.lastT),
               stopped |-> IF closing THEN FALSE
                           ELSE IF act = "stop" THEN TRUE
                           ELSE IF act = "start" /\ o.exit = "next" THEN FALSE
                           ELSE gh.stopped,
               scenario |-> IF L2.engine = None THEN None
                            ELSE IF act = "start" /\ o.exit = "next"
                                 THEN o.scenario
                                 ELSE gh.scenario]

\* The receive of the loop returns a delivered message: always when one is
\* there (blocking while paused, within the timeout while playing).
Receives == pc = "recv" /\ pending > 0

\* The history's account of the messages sent by the last operation: the
\* frames among them, in order.
SentFrames ==
  LET idx == {i \in 1..Len(ev.sent) : ev.sent[i].type = "frame"}
      nth[k \in 0..Len(ev.sent)] ==
        IF k = 0 THEN <<>>
        ELSE IF k \in idx THEN Append(nth[k - 1], ev.sent[k].data) ELSE nth[k - 1]
  IN nth[Len(ev.sent)]
SentError == \E i \in 1..Len(ev.sent) : ev.sent[i].type = "error"

\* A client message reaches the socket.
Deliver ==
  /\ pc # "closed"
  /\ pending < MaxInbox
  /\ pending' = pending + 1
  /\ UNCHANGED <<engine, playing, speed_multiplier, fps, steps_per_frame,
                 frame, pc, ev, gh>>

Start ==
  /\ Receives
  /\ \E msg \in StartMessages, ai \in AiResults, answered \in BOOLEAN :
       LET res == get_scenario(msg.prompt, ai)
           hz == res.ok /\ "use_horizons" \in DOMAIN res.scenario
       IN \* draw each outcome once: the generation service is asked only for
          \* a request that names no built-in, Horizons only for a built-in
          /\ (res.ok /\ res.source = "builtin") => ai.ok
          /\ ~hz => answered
          /\ Commit("start",
                    on_start(Locals, msg, ai,
                             IF hz /\ answered
                             THEN Len(res.scenario.use_horizons) ELSE 0)
                      @@ [scenario |-> IF res.ok THEN res.scenario ELSE None],
                    pending - 1)

Pause == Receives /\ Commit("pause", on_pause(Locals), pending - 1)

Resume == Receives /\ Commit("resume", on_resume(Locals), pending - 1)

Reset == Receives /\ Commit("reset", on_reset(Locals), pending - 1)

SetSpeed ==
  /\ Receives
  /\ \E mult \in Multipliers, numeric \in BOOLEAN :
       /\ ~numeric => mult = 0
       /\ Commit("set_speed", on_set_speed(Locals, mult, numeric), pending - 1)

Stop == Receives /\ Commit("stop", on_stop(Locals), pending - 1)

GetElements ==
  /\ Receives
  /\ \E undefined \in OrbitOutcomes(engine) :
       Commit("get_elements", on_get_elements(Locals, undefined), pending - 1)

\* json.loads(raw) raises on a text that is not JSON.
BadJson ==
  /\ Receives
  /\ Commit("bad_json",
            [L |-> Locals, sent |-> <<>>, steps |-> 0, exit |-> "raise"],
            pending - 1)

\* receive_text raises WebSocketDisconnect: the loop breaks, nothing is sent.
Disconnect ==
  /\ pc = "recv"
  /\ engine' = None /\ playing' = FALSE /\ speed_multiplier' = 1 /\ fps' = 30
  /\ steps_per_frame' = 2 /\ frame' = Unbound /\ pending' = 0 /\ pc' = "closed"
  /\ ev' = [act |-> "disconnect", sent |-> <<>>, steps |-> 0, queued |-> 0,
            exit |-> "break", was |-> Was]
  /\ gh' = [gh EXCEPT !.stopped = FALSE, !.scenario = None]

\* The stepping block: after a handled message, or when the receive timed
\* out because no message was delivered (no await lies between the timeout
\* and the block).
SimFrame ==
  /\ \/ pc = "sim"
     \/ pc = "recv" /\ stepping(Locals) /\ pending = 0
  /\ stepping(Locals)
  /\ engine.sim # None =>
       engine.sim.t + engine.t_per_frame * steps_per_frame <= MaxT
  /\ \E r \in step_loop(engine, frame, steps_per_frame, 0) :
       Commit("frame", sim_block(Locals, r), pending)

Init ==
  /\ engine = None /\ playing = FALSE /\ speed_multiplier = 1 /\ fps = 30
  /\ steps_per_frame = 2 /\ frame = Unbound /\ pending = 0 /\ pc = "recv"
  /\ ev = [act |-> "init", sent |-> <<>>, steps |-> 0, queued |-> 0,
           exit |-> "next",
           was |-> [playing |-> FALSE, t |-> -1, faulted |-> FALSE,
                    lastT |-> -1]]
  /\ gh = [lastT |-> -1, stopped |-> FALSE, scenario |-> None]

Next ==
  \/ Deliver
  \/ Start
  \/ Pause
  \/ Resume
  \/ Reset
  \/ SetSpeed
  \/ Stop
  \/ GetElements
  \/ BadJson
  \/ Disconnect
  \/ SimFrame

Spec == Init /\ [][Next]_vars

\* ---------------------------------------------------------------------------
\* The engine on its own: one ReboundEngine and calls of its methods in any
\* order, as the REST handlers and scripts make them.  The variable engine
\* holds the object; ev records the last call: the method, its argument, the
\* object before the call, the exception it raised ("" for none) and what it
\* returned.
LoadInputs == {AiScenario, BareScenario, [name |-> "NoBodies", t_per_frame |-> 2]}
HorizonsNames == <<"Sun", "Earth", "Mars">>

Called(act, arg, out) ==
  /\ engine' = out.eng
  /\ ev' = [act |-> act, arg |-> arg, pre |-> engine, raised |-> out.raised,
            result |-> out.frame]
  /\ UNCHANGED <<playing, speed_multiplier, fps, steps_per_frame, frame,
                 pending, pc, gh>>

CallLoadScenario ==
  \E scenario \in LoadInputs :
    Called("load_scenario", scenario, load_scenario(engine, scenario))

CallLoadFromHorizons ==
  \E fetched \in 0..Len(HorizonsNames) :
    Called("load_from_horizons", HorizonsNames,
           load_from_horizons(engine, HorizonsNames, "whfast", fetched))

CallReset == Called("reset", None, reset(engine))

CallStep ==
  \E n_frames \in 1..MaxN :
    /\ engine.sim # None => engine.sim.t + engine.t_per_frame * n_frames <= MaxT
    /\ \E r \in step(engine, n_frames) : Called("step", n_frames, r)

CallGetFrame ==
  Called("get_frame", None, [eng |-> engine, raised |-> "", frame |-> get_frame(engine)])

CallGetOrbitalElements ==
  \E undefined \in OrbitOutcomes(engine) :
    Called("get_orbital_elements", undefined,
           [eng |-> engine, raised |-> "",
            frame |-> get_orbital_elements(engine, undefined)])

\* engine.t_per_frame = ..., the assignment a speed change makes from
\* outside the class.
SpeedValues == {1, 2, 4}

CallSetTPerFrame ==
  \E v \in SpeedValues :
    Called("set_t_per_frame", v,
           [eng |-> [engine EXCEPT !.t_per_frame = v], raised |-> "",
            frame |-> None])

\* (duration, n_points) of the model, duration in ticks.
TrajectoryInputs ==
  { [duration |-> 4, n_points |-> n] : n \in {0, 1, 2, 4} }
  \cup { [duration |-> 2, n_points |-> 2] }

CallGetTrajectories ==
  \E a \in TrajectoryInputs :
    \E r \in get_trajectories(engine, a.duration, a.n_points) :
      Called("get_trajectories", a, r)

InitEngine ==
  /\ engine = NewEngine /\ playing = FALSE /\ speed_multiplier = 1 /\ fps = 30
  /\ steps_per_frame = 2 /\ frame = Unbound /\ pending = 0 /\ pc = "api"
  /\ ev = [act |-> "init", arg |-> None, pre |-> NewEngine, raised |-> "",
           result |-> None]
  /\ gh = [lastT |-> -1, stopped |-> FALSE, scenario |-> None]

NextEngine ==
  \/ CallLoadScenario
  \/ CallLoadFromHorizons
  \/ CallReset
  \/ CallStep
  \/ CallGetFrame
  \/ CallGetOrbitalElements
  \/ CallGetTrajectories
  \/ CallSetTPerFrame

SpecEngine == InitEngine /\ [][NextEngine]_vars

\* ---------------------------------------------------------------------------
\* The two paths that load a scenario for a client request: the start
\* handler of the WebSocket loop and POST /api/simulate, each from the
\* answer of the generation service to the request.

\* Scenarios the generation service can put in its answer.
GeneratedScenarios ==
  { AiScenario, BareScenario,
    [name |-> "NoBodies", t_per_frame |-> HorizonsTPerFrame],
    [name |-> "Empty", bodies |-> <<>>],
    [name |-> "OneBody", bodies |-> <<Star>>],
    [name |-> "ZeroMass", bodies |-> <<Star, [Planet EXCEPT !.mass = 0]>>],
    [name |-> "NegativePrimary", bodies |-> <<[Star EXCEPT !.mass = -1], Planet>>],
    [name |-> "Extreme", bodies |-> <<Star, [Planet EXCEPT !.x = 2000000]>>] }

\* What requests.post(...) ends in: an exception (timeout, connection), an
\* answer with no JSON object in it, an answer with one.
Responses ==
  { [kind |-> "timeout"], [kind |-> "text"] }
  \cup { [kind |-> "json", scenario |-> s] : s \in GeneratedScenarios }

\* scenario.setdefault(...) for units, integrator, t_per_frame, scale
SetDefaults(scenario) ==
  Merge([units |-> "solar", integrator |-> "ias15",
         t_per_frame |-> HorizonsTPerFrame, scale |-> 180],
        scenario)

\* generate_scenario_from_text
generate_scenario_from_text(response) ==
  IF response.kind = "timeout"
  THEN [ok |-> FALSE, error |-> "timeout"]
  ELSE IF response.kind = "text"
  THEN [ok |-> FALSE, error |-> "No JSON found in response"]
  ELSE IF "bodies" \notin DOMAIN response.scenario
  THEN [ok |-> FALSE, error |-> "No bodies in scenario"]
  ELSE IF Len(response.scenario.bodies) = 0
  THEN [ok |-> FALSE, error |-> "No bodies in scenario"]
  ELSE [ok |-> TRUE, scenario |-> SetDefaults(response.scenario)]

\* simulate_once: the frames loop, n more calls of engine.step(spf).
RECURSIVE sim_frames(_, _, _, _)
sim_frames(e, n, spf, frames) ==
  IF n <= 0
  THEN { [eng |-> e, raised |-> "", frames |-> frames] }
  ELSE UNION { IF o.raised # ""
               THEN { [eng |-> o.eng, raised |-> o.raised, frames |-> frames] }
               ELSE sim_frames(o.eng, n - 1, spf, Append(frames, o.frame))
               : o \in step(e, spf) }

\* min(a, b)
Min(a, b) == IF a < b THEN a ELSE b

\* simulate_once(req): every outcome, as the response's status (500 for an
\* exception that leaves the handler), the engine the handler built and the
\* frames it returns.
simulate_once(req, ai, fetched) ==
  LET result == get_scenario(req.prompt, ai)
  IN IF ~result.ok
     THEN { [status |-> 400, eng |-> None, frames |-> <<>>] }
     ELSE
       LET scenario == result.scenario
           hz == "use_horizons" \in DOMAIN scenario
           ld == IF hz
                 THEN load_from_horizons(NewEngine, scenario.use_horizons,
                                         Get(scenario, "integrator", "whfast"),
                                         fetched)
                 ELSE load_scenario(NewEngine, scenario)
           e1 == IF hz
                 THEN [ld.eng EXCEPT
                         !.t_per_frame = Get(scenario, "t_per_frame", HorizonsTPerFrame),
                         !.scale = Get(scenario, "scale", 180)]
                 ELSE ld.eng
       IN IF ld.raised # ""
          THEN { [status |-> 500, eng |-> ld.eng, frames |-> <<>>] }
          ELSE { [status |-> IF r.raised # "" THEN 500 ELSE 200, eng |-> r.eng,
                  frames |-> IF r.raised # "" THEN <<>> ELSE r.frames]
                 : r \in sim_frames(e1, Min(req.frames_per_second * 5, 300),
                                    req.steps_per_frame, <<>>) }

\* Requests of the model: a built-in or a generated scenario; up to two
\* seconds of frames.
SimRequests ==
  { [prompt |-> p, frames_per_second |-> f, steps_per_frame |-> k] :
      p \in {"solar system", "binary star"}, f \in {0, 1, 2}, k \in {0, 1, 2} }

\* One request was served: the engine it built (None for none), and in ev
\* the path, the request, the scenario get_scenario gave (None for none) and
\* the outcome.
Served(act, request, scenario, eng, out) ==
  /\ engine' = eng
  /\ ev' = [act |-> act, request |-> request, scenario |-> scenario,
            out |-> out]
  /\ UNCHANGED <<playing, speed_multiplier, fps, steps_per_frame, frame,
                 pending, pc, gh>>

\* A request as it arrives: the path, the message or body, and what the
\* generation service and the Horizons fetch will give while it is served.
Requests ==
  { [act |-> "request", path |-> "start", request |-> m, response |-> r, fetched |-> f]
      : m \in StartMessages, r \in Responses, f \in {0, 9} }
  \cup
  { [act |-> "request", path |-> "simulate", request |-> m, response |-> r, fetched |-> f]
      : m \in SimRequests, r \in Responses, f \in {0, 9} }

\* The next request arrives, on a fresh connection.
Arrive ==
  /\ ev.act # "request"
  /\ \E r \in Requests : ev' = r
  /\ engine' = None
  /\ UNCHANGED <<playing, speed_multiplier, fps, steps_per_frame, frame,
                 pending, pc, gh>>

\* websocket_sim, the start handler, on the locals of a fresh connection.
ServeStart ==
  /\ ev.act = "request" /\ ev.path = "start"
  /\ LET msg == ev.request
         ai == generate_scenario_from_text(ev.response)
         res == get_scenario(msg.prompt, ai)
         o == on_start(InitLocals, msg, ai, ev.fetched)
     IN Served("start", msg, IF res.ok THEN res.scenario ELSE None,
              IF o.exit = "next" THEN o.L.engine ELSE None,
              [exit |-> o.exit, sent |-> o.sent])

\* POST /api/simulate
ServeSimulate ==
  /\ ev.act = "request" /\ ev.path = "simulate"
  /\ LET req == ev.request
         ai == generate_scenario_from_text(ev.response)
         res == get_scenario(req.prompt, ai)
     IN \E o \in simulate_once(req, ai, ev.fetched) :
         Served("simulate", req, IF res.ok THEN res.scenario ELSE None,
                IF o.status = 200 THEN o.eng ELSE None,
                [status |-> o.status, frames |-> o.frames])

InitLoad ==
  /\ engine = None /\ playing = FALSE /\ speed_multiplier = 1 /\ fps = 30
  /\ steps_per_frame = 2 /\ frame = Unbound /\ pending = 0 /\ pc = "serve"
  /\ ev \in Requests
  /\ gh = [lastT |-> -1, stopped |-> FALSE, scenario |-> None]

NextLoad ==
  \/ Arrive
  \/ ServeStart
  \/ ServeSimulate

SpecLoad == InitLoad /\ [][NextLoad]_vars

\* ---------------------------------------------------------------------------
\* scenario_validator.py.  Positions are whole AU and masses whole solar
\* masses.  A velocity component v of the model is v * 2 * pi / 10 AU/yr, so
\* that G_SOLAR = 4 * pi^2 AU^3 yr^-2 Msun^-1 is 100 in the model's units.
\* A speed (a square root) is kept as its square, a fraction num / den with
\* den > 0, and speeds are compared through their squares, which is exact.
G_SOLAR == 100

\* math.sqrt, on the perfect squares the model takes it of.
ISqrt(n) == CHOOSE k \in 0..n : k * k = n

\* The speed sqrt(num / den) and the speed of a velocity vector.
Speed(num, den) == [num |-> num, den |-> den]
Norm(vx, vy) == Speed(vx * vx + vy * vy, 1)

\* a < b * p / q, a > b * p / q for speeds a, b and a factor p / q >= 0.
Below(a, b, p, q) == a.num * b.den * q * q < b.num * a.den * p * p
Above(a, b, p, q) == a.num * b.den * q * q > b.num * a.den * p * p

\* circular_orbit_velocity, escape_velocity
circular_orbit_velocity(mass_central, radius) ==
  IF radius <= 0 \/ mass_central <= 0 THEN Speed(0, 1)
  ELSE Speed(G_SOLAR * mass_central, radius)
escape_velocity(mass_central, radius) ==
  IF radius <= 0 \/ mass_central <= 0 THEN Speed(0, 1)
  ELSE Speed(2 * G_SOLAR * mass_central, radius)

\* The check flagging every speed whose ratio to v_circular is outside
\* [0.7, 1.4].
problem_of_by_ratio(v_current, v_circular, v_escape) ==
  IF Below(v_current, v_circular, 3, 10) THEN "TOO SLOW"
  ELSE IF Above(v_current, v_escape, 15, 10) THEN "TOO FAST"
  ELSE IF Below(v_current, v_circular, 7, 10) \/ Above(v_current, v_circular, 14, 10)
       THEN "SUSPICIOUS" ELSE ""

\* validate_and_fix_scenario, "Check for problems": the problem found for a
\* body of speed v_current, "" for none.
problem_of(v_current, v_circular, v_escape) ==
  IF Below(v_current, v_circular, 3, 10) THEN "TOO SLOW"
  ELSE IF Above(v_current, v_escape, 15, 10) THEN "TOO FAST"
  ELSE IF Below(v_current, v_circular, 5, 10) \/ Above(v_current, v_circular, 15, 10)
       THEN IF Below(v_current, v_circular, 7, 10) \/ Above(v_current, v_circular, 14, 10)
            THEN "SUSPICIOUS" ELSE ""
       ELSE ""

\* The fix with the perpendicular not divided by r_len.
fixed_velocity_unnormalised(x, y, r_len, v_circular) ==
  LET vc == ISqrt(v_circular.num \div v_circular.den)
  IN [vx |-> (0 - y) * vc, vy |-> x * vc]

\* The fix with the clockwise perpendicular (y/r, -x/r).
fixed_velocity_clockwise(x, y, r_len, v_circular) ==
  LET vc == ISqrt(v_circular.num \div v_circular.den)
  IN [vx |-> (y * vc) \div r_len, vy |-> ((0 - x) * vc) \div r_len]

\* The fix that puts v_circular on the +y axis whatever the position.
fixed_velocity_along_y(x, y, r_len, v_circular) ==
  LET vc == ISqrt(v_circular.num \div v_circular.den)
  IN [vx |-> 0, vy |-> vc]

\* validate_and_fix_scenario, "Apply fix": new_vx, new_vy.
fixed_velocity(x, y, r_len, v_circular) ==
  LET vc == ISqrt(v_circular.num \div v_circular.den)
  IN [vx |-> ((0 - y) * vc) \div r_len, vy |-> (x * vc) \div r_len]

\* body.copy() with "vx" and "vy" set.
WithVelocity(body, v) ==
  [k \in DOMAIN body \cup {"vx", "vy"} |->
     IF k = "vx" THEN v.vx ELSE IF k = "vy" THEN v.vy ELSE body[k]]

\* The loop body of validate_and_fix_scenario for the body at list index i
\* (0-based, i >= 1): the body appended to fixed_bodies and the issues added.
check_body(body, i, M_primary, auto_fix) ==
  LET name == Get(body, "name", <<"Body", i>>)
      x == Get(body, "x", 0)
      y == Get(body, "y", 0)
      vx == Get(body, "vx", 0)
      vy == Get(body, "vy", 0)
      r == ISqrt(x * x + y * y)
      v_circular == circular_orbit_velocity(M_primary, r)
      v_escape == escape_velocity(M_primary, r)
      problem == problem_of(Norm(vx, vy), v_circular, v_escape)
      warning == [kind |-> problem, name |-> name]
  IN IF r = 0 THEN [body |-> body, issues |-> <<>>]
     ELSE IF problem = "" THEN [body |-> body, issues |-> <<>>]
     ELSE IF auto_fix
          THEN [body |-> WithVelocity(body, fixed_velocity(x, y, r, v_circular)),
                issues |-> <<warning, [kind |-> "FIXED", name |-> name]>>]
          ELSE [body |-> body, issues |-> <<warning>>]

\* validate_and_fix_scenario
validate_and_fix_scenario(scenario, auto_fix) ==
  LET bodies == Get(scenario, "bodies", <<>>)
  IN IF Len(bodies) < 2
     THEN [ok |-> TRUE, issues |-> <<>>, scenario |-> scenario]
     ELSE
       LET M_primary == Get(bodies[1], "mass", 1)
           checked == [k \in 2..Len(bodies) |->
                         check_body(bodies[k], k - 1, M_primary, auto_fix)]
           fixed_bodies == [k \in 1..Len(bodies) |->
                              IF k = 1 THEN bodies[1] ELSE checked[k].body]
           issues[k \in 1..Len(bodies)] ==
             IF k = 1 THEN <<>> ELSE issues[k - 1] \o checked[k].issues
           all == issues[Len(bodies)]
           found == Cardinality({j \in 1..Len(all) : all[j].kind # "FIXED"})
           fixed == Cardinality({j \in 1..Len(all) : all[j].kind = "FIXED"})
       IN [ok |-> found = 0,
           issues |-> all,
           scenario |-> [k \in DOMAIN scenario \cup {"bodies"} |->
                           IF k = "bodies" THEN fixed_bodies ELSE scenario[k]],
           stats |-> [total_bodies |-> Len(bodies), issues_found |-> found,
                      issues_fixed |-> fixed]]

\* The validator applied to scenarios, and again to its own output.
\* Positions and primary masses are those for which the model's whole-number
\* arithmetic is exact: the radius, v_circular and the fixed components are
\* whole numbers.
PrimaryWith(mass) ==
  [name |-> "Primary", mass |-> mass, x |-> 0, y |-> 0, vx |-> 0, vy |-> 0]

BodyAt(name, p, v) ==
  [name |-> name, mass |-> 1, x |-> p[1], y |-> p[2], vx |-> v[1], vy |-> v[2]]

AxisPositions ==
  { <<0, 0>>, <<1, 0>>, <<-1, 0>>, <<0, 1>>, <<0, -1>>, <<4, 0>>, <<0, -4>> }

DiagonalPositions == { <<3, 4>>, <<-4, 3>>, <<4, -3>> }

Velocities ==
  { <<0, 0>>, <<6, 8>>, <<-8, 6>>, <<8, -6>> }
  \cup UNION { { <<v, 0>>, <<0 - v, 0>>, <<0, v>>, <<0, 0 - v>> }
                : v \in {2, 4, 5, 6, 7, 10, 14, 15, 16, 22, 40} }

ValidatorInputs ==
  { [name |-> "Pair", bodies |-> <<PrimaryWith(m), BodyAt("Moon", p, v)>>]
      : m \in {-1, 0, 1, 4}, p \in AxisPositions, v \in Velocities }
  \cup
  { [name |-> "Pair", bodies |-> <<PrimaryWith(5), BodyAt("Moon", p, v)>>]
      : p \in DiagonalPositions, v \in Velocities }
  \cup
  { [name |-> "Triple",
     bodies |-> <<PrimaryWith(4), BodyAt("Inner", <<1, 0>>, v),
                  BodyAt("Outer", <<0, -4>>, w)>>]
      : v \in { <<0, 20>>, <<0, -2>>, <<0, 0>> },
        w \in { <<10, 0>>, <<-40, 0>>, <<0, 14>> } }
  \cup
  { [name |-> "Binary",
     bodies |-> <<[PrimaryWith(4) EXCEPT !.name = "Star A", !.y = 3],
                  BodyAt("Star B", <<4, 0>>, v)>>]
      : v \in { <<0, 10>>, <<0, 2>>, <<0, 0>>, <<0, -40>> } }
  \cup
  { [name |-> "Swapped",
     bodies |-> <<PrimaryWith(1),
                  [BodyAt("Giant", <<4, 0>>, v) EXCEPT !.mass = 4]>>]
      : v \in { <<0, 5>>, <<0, 0>>, <<0, 10>> } }
  \cup
  { [name |-> "Alone", bodies |-> <<PrimaryWith(1)>>],
    [name |-> "NoBodies"],
    [name |-> "Bare", bodies |-> <<[name |-> "Nameless"], [x |-> 1, vy |-> 2]>>] }

\* smart_validate_scenario: the most massive body is found and the
\* multi-star test made, and both branches make the same call.
smart_validate_scenario(scenario) ==
  LET bodies == Get(scenario, "bodies", <<>>)
      mass(i) == Get(bodies[i], "mass", 0)
      primary_idx == CHOOSE i \in 1..Len(bodies) :
                       \A j \in 1..Len(bodies) :
                         mass(j) < mass(i) \/ (mass(j) = mass(i) /\ i <= j)
      M_primary == Get(bodies[primary_idx], "mass", 1)
      multi_star == \E j \in 1..Len(bodies) \ {primary_idx} :
                      10 * mass(j) > 3 * M_primary
  IN IF Len(bodies) < 2
     THEN [ok |-> TRUE, issues |-> <<>>, scenario |-> scenario]
     ELSE IF multi_star
          THEN validate_and_fix_scenario(scenario, TRUE)
          ELSE validate_and_fix_scenario(scenario, TRUE)

\* fix_scenario_velocities
fix_scenario_velocities(scenario) == smart_validate_scenario(scenario).scenario

SmartValidate ==
  /\ ev.act = "init"
  /\ ev' = [act |-> "smart", arg |-> ev.arg,
            result |-> smart_validate_scenario(ev.arg),
            fixed |-> fix_scenario_velocities(ev.arg)]
  /\ UNCHANGED <<engine, playing, speed_multiplier, fps, steps_per_frame,
                 frame, pending, pc, gh>>

Validate ==
  /\ ev.act = "init"
  /\ \E auto_fix \in BOOLEAN :
       ev' = [act |-> "validate", arg |-> ev.arg, auto_fix |-> auto_fix,
              result |-> validate_and_fix_scenario(ev.arg, auto_fix)]
  /\ UNCHANGED <<engine, playing, speed_multiplier, fps, steps_per_frame,
                 frame, pending, pc, gh>>

Revalidate ==
  /\ ev.act = "validate"
  /\ ev' = [act |-> "revalidate", arg |-> ev.result.scenario,
            after_fix |-> ev.auto_fix, first |-> ev.result,
            result |-> validate_and_fix_scenario(ev.result.scenario, TRUE)]
  /\ UNCHANGED <<engine, playing, speed_multiplier, fps, steps_per_frame,
                 frame, pending, pc, gh>>

InitValidator ==
  /\ engine = None /\ playing = FALSE /\ speed_multiplier = 1 /\ fps = 30
  /\ steps_per_frame = 2 /\ frame = Unbound /\ pending = 0 /\ pc = "validator"
  /\ ev \in { [act |-> "init", arg |-> s] : s \in ValidatorInputs }
  /\ gh = [lastT |-> -1, stopped |-> FALSE, scenario |-> None]

NextValidator ==
  \/ Validate
  \/ Revalidate
  \/ SmartValidate

SpecValidator == InitValidator /\ [][NextValidator]_vars

\* ---------------------------------------------------------------------------
\* The validator on Python objects.  A heap maps an address to a dict or a
\* list; the "bodies" item of a scenario dict is the address of its list, a
\* list holds the addresses of its body dicts.

Ref(a) == [ref |-> a]

\* The heap holding the scenario s alone: the scenario dict at 1, its body
\* list (if it has one) at 2, the body dicts from 3.
Store(s) ==
  IF "bodies" \notin DOMAIN s
  THEN [a \in {1} |-> [kind |-> "dict", items |-> s]]
  ELSE [a \in 1..(2 + Len(s.bodies)) |->
          IF a = 1
          THEN [kind |-> "dict",
                items |-> [f \in DOMAIN s |->
                             IF f = "bodies" THEN Ref(2) ELSE s[f]]]
          ELSE IF a = 2
          THEN [kind |-> "list",
                items |-> [k \in 1..Len(s.bodies) |-> Ref(2 + k)]]
          ELSE [kind |-> "dict", items |-> s.bodies[a - 2]]]

\* The scenario value that the dict at address s holds.
Deref(heap, s) ==
  LET d == heap[s].items
  IN [f \in DOMAIN d |->
        IF f = "bodies"
        THEN [k \in 1..Len(heap[d.bodies.ref].items) |->
                heap[heap[d.bodies.ref].items[k].ref].items]
        ELSE d[f]]

\* d[k] = v
SetItem(d, k, v) == [f \in DOMAIN d \cup {k} |-> IF f = k THEN v ELSE d[f]]

\* validate_and_fix_scenario on the heap: the heap after the call and the
\* dict returned, its "scenario" item an address.  With fewer than two bodies
\* the scenario returned is the argument; otherwise fixed_bodies is a new
\* list, fixed_scenario a new dict (scenario.copy()), a rewritten body a new
\* dict (body.copy()), and every other body the dict of the input list.
validate_on_heap(heap, s, auto_fix) ==
  LET scenario == heap[s].items
      bodies == IF "bodies" \in DOMAIN scenario
                THEN heap[scenario.bodies.ref].items ELSE <<>>
      value == validate_and_fix_scenario(Deref(heap, s), auto_fix)
      top == Cardinality(DOMAIN heap)
  IN IF Len(bodies) < 2
     THEN [heap |-> heap,
           result |-> [ok |-> TRUE, issues |-> <<>>, scenario |-> Ref(s)]]
     ELSE
       LET rewritten(k) == k >= 2 /\ value.scenario.bodies[k] # heap[bodies[k].ref].items
           copies == { k \in 1..Len(bodies) : rewritten(k) }
           fixed_bodies == [k \in 1..Len(bodies) |->
                              IF rewritten(k) THEN Ref(top + 2 + k) ELSE bodies[k]]
           new == {top + 1, top + 2} \cup { top + 2 + k : k \in copies }
       IN [heap |-> [a \in DOMAIN heap \cup new |->
                       IF a \in DOMAIN heap THEN heap[a]
                       ELSE IF a = top + 1
                       THEN [kind |-> "list", items |-> fixed_bodies]
                       ELSE IF a = top + 2
                       THEN [kind |-> "dict",
                             items |-> SetItem(scenario, "bodies", Ref(top + 1))]
                       ELSE [kind |-> "dict",
                             items |-> value.scenario.bodies[a - top - 2]]],
           result |-> [ok |-> value.ok, issues |-> value.issues,
                       scenario |-> Ref(top + 2), stats |-> value.stats]]

\* The scenarios stored: with no, one, two and three bodies.
HeapInputs ==
  { s \in ValidatorInputs :
      \/ s.name \in {"Alone", "NoBodies", "Bare", "Triple"}
      \/ /\ s.name = "Pair"
         /\ s.bodies[1].mass = 4
         /\ s.bodies[2].x = 4
         /\ s.bodies[2].vx = 0
         /\ s.bodies[2].vy \in {2, 10} }

\* What the caller does to the scenario it got back.
Modifications == {"rename", "drop bodies", "append body", "clear list"}

CallValidate ==
  /\ ev.act = "stored"
  /\ \E auto_fix \in BOOLEAN :
       LET o == validate_on_heap(ev.heap, 1, auto_fix)
       IN ev' = [act |-> "validated", input |-> ev.heap, auto_fix |-> auto_fix,
                 heap |-> o.heap, result |-> o.result]
  /\ UNCHANGED <<engine, playing, speed_multiplier, fps, steps_per_frame,
                 frame, pending, pc, gh>>

\* The caller modifies the returned scenario dict, or the list that is its
\* "bodies" item.
ModifyReturned ==
  /\ ev.act = "validated"
  /\ \E m \in Modifications :
       LET a == ev.result.scenario.ref
           d == ev.heap[a].items
           has == "bodies" \in DOMAIN d
           heap2 ==
             IF m = "rename"
             THEN [ev.heap EXCEPT ![a].items = SetItem(d, "name", "Changed")]
             ELSE IF m = "drop bodies"
             THEN [ev.heap EXCEPT ![a].items = [f \in DOMAIN d \ {"bodies"} |-> d[f]]]
             ELSE IF ~has THEN ev.heap
             ELSE IF m = "append body"
             THEN [ev.heap EXCEPT ![d.bodies.ref].items =
                     Append(@, ev.heap[d.bodies.ref].items[1])]
             ELSE [ev.heap EXCEPT ![d.bodies.ref].items = <<>>]
       IN /\ has \/ m \in {"rename", "drop bodies"}
          /\ ev' = [act |-> "modified", input |-> ev.input, how |-> m,
                    auto_fix |-> ev.auto_fix, heap |-> heap2,
                    result |-> ev.result]
  /\ UNCHANGED <<engine, playing, speed_multiplier, fps, steps_per_frame,
                 frame, pending, pc, gh>>

InitHeap ==
  /\ engine = None /\ playing = FALSE /\ speed_multiplier = 1 /\ fps = 30
  /\ steps_per_frame = 2 /\ frame = Unbound /\ pending = 0 /\ pc = "heap"
  /\ ev \in { [act |-> "stored", heap |-> Store(s)] : s \in HeapInputs }
  /\ gh = [lastT |-> -1, stopped |-> FALSE, scenario |-> None]

NextHeap ==
  \/ CallValidate
  \/ ModifyReturned

SpecHeap == InitHeap /\ [][NextHeap]_vars

\* ---------------------------------------------------------------------------
\* physics_engine.py: the transfer planner.  Radii are in tenths of an AU
\* (the table's semi-major axes rounded to 0.1 AU), speeds in units of
\* 2 pi AU/yr (so GM is 1) and kept as squares, as in the validator.

SOLAR_SYSTEM ==
  [mercury |-> [a |-> 4], venus |-> [a |-> 7], earth |-> [a |-> 10],
   mars |-> [a |-> 15], jupiter |-> [a |-> 52], saturn |-> [a |-> 95],
   uranus |-> [a |-> 192], neptune |-> [a |-> 301]]

\* abs(p - q) of two speeds given as squares, kept as the pair; it is zero
\* exactly when the squares are equal.
AbsDiff(p, q) == [of |-> p, minus |-> q]
IsZero(d) == d.of.num * d.minus.den = d.minus.num * d.of.den

\* compute_hohmann(body1, body2).  transfer_days is the square of T in
\* half-years: T = pi * sqrt(a_t^3 / GM) * 365.25 with GM = 4 pi^2 is
\* 182.625 * a_t^1.5 days.
compute_hohmann(body1, body2) ==
  IF body1 \notin DOMAIN SOLAR_SYSTEM \/ body2 \notin DOMAIN SOLAR_SYSTEM
  THEN None
  ELSE LET r1 == SOLAR_SYSTEM[body1].a
           r2 == SOLAR_SYSTEM[body2].a
           v1 == Speed(10, r1)
           v2 == Speed(10, r2)
           v_t1 == Speed(20 * r2, r1 * (r1 + r2))
           v_t2 == Speed(20 * r1, r2 * (r1 + r2))
           dv1 == AbsDiff(v_t1, v1)
           dv2 == AbsDiff(v2, v_t2)
       IN [from |-> body1, to |-> body2, r1_au |-> r1, r2_au |-> r2,
           delta_v1 |-> dv1, delta_v2 |-> dv2,
           total_delta_v |-> <<dv1, dv2>>,
           transfer_days |-> Speed((r1 + r2) * (r1 + r2) * (r1 + r2), 8000)]

\* The names asked for: the table's, one it does not have, one capitalised
\* (compute_hohmann does not lower-case its arguments).
BodyNames == DOMAIN SOLAR_SYSTEM \cup {"pluto", "Earth"}

CallHohmann ==
  /\ ev.act = "ask"
  /\ ev' = [act |-> "hohmann", body1 |-> ev.body1, body2 |-> ev.body2,
            result |-> compute_hohmann(ev.body1, ev.body2)]
  /\ UNCHANGED <<engine, playing, speed_multiplier, fps, steps_per_frame,
                 frame, pending, pc, gh>>

InitPhysics ==
  /\ engine = None /\ playing = FALSE /\ speed_multiplier = 1 /\ fps = 30
  /\ steps_per_frame = 2 /\ frame = Unbound /\ pending = 0 /\ pc = "physics"
  /\ ev \in { [act |-> "ask", body1 |-> a, body2 |-> b] :
                a \in BodyNames, b \in BodyNames }
  /\ gh = [lastT |-> -1, stopped |-> FALSE, scenario |-> None]

NextPhysics == CallHohmann

SpecPhysics == InitPhysics /\ [][NextPhysics]_vars

\* ---------------------------------------------------------------------------
\* Two sessions of websocket_sim on one server.  Each has its own locals; the
\* dicts of KNOWN_SCENARIOS are module objects, and get_scenario hands the
\* same dict to every session that asks for it: an engine loaded from it
\* keeps it as initial_scenario by reference.  ev holds both sessions: L[i]
\* the locals of session i (with Ref(key) for a stored built-in dict), pc[i]
\* where its loop stands, lastT[i] the time of the last frame sent on its
\* socket, known the built-in dicts as they are now; and the last operation:
\* act by session who, and other, what the other session was before it.
\* The sessions of the model start from the built-in scenario, change speed
\* to non-zero multipliers, and their integrations succeed (the faults and
\* the failed loads of one session are in Spec).

\* KNOWN_SCENARIOS["earth moon"], in the model's units.
EarthMoon ==
  [name |-> "Earth-Moon System", description |-> "Earth and Moon",
   units |-> "solar", integrator |-> "ias15", t_per_frame |-> HorizonsTPerFrame,
   scale |-> 3000,
   bodies |-> <<[name |-> "Earth", mass |-> 81, x |-> 0, y |-> 0, vx |-> 0,
                 vy |-> 0, color |-> "#4fffb0", radius |-> 14, type |-> "planet"],
                [name |-> "Moon", mass |-> 1, x |-> 1, y |-> 0, vx |-> 0,
                 vy |-> 6, color |-> "#cccccc", radius |-> 7, type |-> "moon"]>>]

KNOWN_SCENARIOS == [k \in {"earth moon"} |-> EarthMoon]

\* The key of the built-in dict a session's engine holds ("": none), and the
\* session's locals with that reference followed.
AliasOf(L) ==
  IF L.engine = None THEN "" ELSE Get(L.engine.initial_scenario, "ref", "")
View(L, known) ==
  IF AliasOf(L) = "" THEN L
  ELSE [L EXCEPT !.engine.initial_scenario = known[AliasOf(L)]]

\* What is observable of session j: its locals, its loop, its frames.
Observed(j) ==
  [L |-> View(ev.L[j], ev.known), pc |-> ev.pc[j], lastT |-> ev.lastT[j]]

\* Session i has run one handler or stepping block with outcome o on its
\* locals; k is the key of the built-in dict its engine holds afterwards.
\* What the handler did to that dict is done to the shared object.
Ran(act, i, o, k) ==
  LET closing == o.exit = "raise"
      L2 == IF closing THEN InitLocals ELSE o.L
      held == k # "" /\ o.L.engine # None
      known2 == IF held /\ o.L.engine.initial_scenario # None
                THEN [ev.known EXCEPT ![k] = o.L.engine.initial_scenario]
                ELSE ev.known
      L3 == IF held /\ ~closing
            THEN [L2 EXCEPT !.engine.initial_scenario = Ref(k)]
            ELSE L2
      sent == IF closing THEN Append(o.sent, Error) ELSE o.sent
  IN /\ ev' = [act |-> act, who |-> i,
               L |-> [ev.L EXCEPT ![i] = L3],
               pc |-> [ev.pc EXCEPT ![i] =
                         IF closing THEN "closed"
                         ELSE IF act # "frame" /\ o.exit = "next" /\ stepping(L3)
                              THEN "sim" ELSE "recv"],
               lastT |-> [ev.lastT EXCEPT ![i] = LastFrameTime(sent, @)],
               known |-> known2,
               other |-> Observed(3 - i)]
     /\ UNCHANGED <<engine, playing, speed_multiplier, fps, steps_per_frame,
                    frame, pending, pc, gh>>

\* Session i receives a message.
Hears(i) == ev.pc[i] = "recv"
Mine(i) == View(ev.L[i], ev.known)

\* start: get_scenario finds the key of a built-in dict in the prompt and
\* returns that dict itself.
PairStart ==
  \E i \in {1, 2}, prompt \in DOMAIN KNOWN_SCENARIOS :
    /\ Hears(i)
    /\ Ran("start", i,
           on_start(Mine(i), [action |-> "start", prompt |-> prompt],
                    [ok |-> TRUE, scenario |-> ev.known[prompt]], 0),
           prompt)

PairPause ==
  \E i \in {1, 2} :
    Hears(i) /\ Ran("pause", i, on_pause(Mine(i)), AliasOf(ev.L[i]))

PairResume ==
  \E i \in {1, 2} :
    Hears(i) /\ Ran("resume", i, on_resume(Mine(i)), AliasOf(ev.L[i]))

PairReset ==
  \E i \in {1, 2} :
    Hears(i) /\ Ran("reset", i, on_reset(Mine(i)), AliasOf(ev.L[i]))

PairSetSpeed ==
  \E i \in {1, 2}, mult \in Multipliers \ {0} :
    Hears(i) /\ Ran("set_speed", i, on_set_speed(Mine(i), mult, TRUE),
                    AliasOf(ev.L[i]))

PairStop ==
  \E i \in {1, 2} :
    Hears(i) /\ Ran("stop", i, on_stop(Mine(i)), AliasOf(ev.L[i]))

PairSimFrame ==
  \E i \in {1, 2} :
    LET L == Mine(i)
    IN /\ ev.pc[i] \in {"sim", "recv"}
       /\ stepping(L)
       /\ L.engine.sim # None =>
            L.engine.sim.t + L.engine.t_per_frame * L.steps_per_frame <= MaxT
       /\ \E r \in step_loop(L.engine, L.frame, L.steps_per_frame, 0) :
            ~r.raised /\ Ran("frame", i, sim_block(L, r), AliasOf(ev.L[i]))

InitPair ==
  /\ engine = None /\ playing = FALSE /\ speed_multiplier = 1 /\ fps = 30
  /\ steps_per_frame = 2 /\ frame = Unbound /\ pending = 0 /\ pc = "pair"
  /\ ev = [act |-> "init", who |-> 1, L |-> <<InitLocals, InitLocals>>,
           pc |-> <<"recv", "recv">>, lastT |-> <<-1, -1>>,
           known |-> KNOWN_SCENARIOS,
           other |-> [L |-> InitLocals, pc |-> "recv", lastT |-> -1]]
  /\ gh = [lastT |-> -1, stopped |-> FALSE, scenario |-> None]

NextPair ==
  \/ PairStart
  \/ PairPause
  \/ PairResume
  \/ PairReset
  \/ PairSetSpeed
  \/ PairStop
  \/ PairSimFrame

SpecPair == InitPair /\ [][NextPair]_vars

\* ---------------------------------------------------------------------------
\* Properties of the session (Spec) and of the engine (SpecEngine).

C2_NoFrameAheadOfDelivered ==
  (ev.act = "frame" /\ ev.steps > 0) => ev.queued = 0

\* C3 (as stated): a reset of a loaded engine succeeds: the session goes
\* on, the simulation is at time 0 with the bodies of the original load, a
\* frame for time 0 is sent and the session is not playing.
C3_ResetReloads ==
  (ev.act = "reset" /\ ev.was.t >= 0) =>
    /\ pc # "closed"
    /\ engine # None
    /\ engine.sim # None
    /\ engine.sim.t = 0
    /\ Len(engine.sim.particles) =
         (IF "use_horizons" \in DOMAIN gh.scenario
          THEN Len(gh.scenario.use_horizons) ELSE Len(gh.scenario.bodies))
    /\ SentFrames = <<get_frame(engine)>>
    /\ ~playing

\* C4 (as stated): whenever the session holds an engine, its t_per_frame is
\* the loaded scenario's t_per_frame times the current speed multiplier; and
\* handling set_speed computes no frame.
C4_SpeedIsScenarioTimesMultiplier ==
  /\ (engine # None /\ gh.scenario # None) =>
       engine.t_per_frame = gh.scenario.t_per_frame * speed_multiplier
  /\ ev.act = "set_speed" => (ev.steps = 0 /\ SentFrames = <<>>)

\* C5: step(n) on an engine with no simulation (never loaded, or reset with
\* no stored scenario) raises RuntimeError, returns no frame and leaves every
\* field of the engine as it was.
C5_StepUnloadedRaises ==
  (ev.act = "step" /\ ev.pre.sim = None) =>
    /\ ev.raised = "RuntimeError"
    /\ ev.result = None
    /\ engine = ev.pre

C5_Witness ==
  /\ ev.act = "step" /\ ev.pre.sim = None /\ ev.raised = "RuntimeError"
  /\ ev.pre.scale # NewEngine.scale

\* C6: get_frame() leaves the engine as it was; with no simulation loaded it
\* returns the empty frame; with one loaded the frame is for the current
\* time and its N is the number of entries of its bodies.
C6_GetFrameIsPure ==
  ev.act = "get_frame" =>
    /\ engine = ev.pre
    /\ ev.raised = ""
    /\ ev.pre.sim = None =>
         ev.result = [t |-> 0, N |-> 0, bodies |-> <<>>, energy_drift |-> 0]
    /\ ev.pre.sim # None =>
         /\ ev.result.N = Len(ev.result.bodies)
         /\ ev.result.t = ev.pre.sim.t

C6_Witness ==
  /\ ev.act = "get_frame" /\ ev.pre.sim # None /\ ev.pre.sim.t > 0
  /\ Len(ev.pre.body_info) # Len(ev.pre.sim.particles)

\* C7: a step(n) that returns has advanced the time by n * t_per_frame, has
\* left the number of bodies, body_info, E0 and the stored scenario as they
\* were, returns the frame of the new time, and leaves what n successive
\* step(1) calls leave.
C7_StepAdvancesExactly ==
  (ev.act = "step" /\ ev.raised = "") =>
    /\ engine.sim.t = ev.pre.sim.t + ev.arg * ev.pre.t_per_frame
    /\ Len(engine.sim.particles) = Len(ev.pre.sim.particles)
    /\ engine.body_info = ev.pre.body_info
    /\ engine.E0 = ev.pre.E0
    /\ engine.initial_scenario = ev.pre.initial_scenario
    /\ engine.t_per_frame = ev.pre.t_per_frame
    /\ ev.result.t = engine.sim.t
    /\ ev.result = get_frame(engine)
    /\ [eng |-> engine, frame |-> ev.result] \in
         { [eng |-> r.eng, frame |-> r.frame] :
             r \in { x \in step_loop(ev.pre, Unbound, ev.arg, 0) : ~x.raised } }

C7_Witness ==
  /\ ev.act = "step" /\ ev.raised = "" /\ ev.arg >= 2 /\ ev.pre.sim.t > 0

\* C8: from a handled stop until a start succeeds the session holds no engine
\* and is not playing, no step is made and no frame is sent, whatever
\* resume, reset, set_speed or get_elements messages are handled.
C8_StoppedStaysStopped ==
  gh.stopped =>
    /\ engine = None
    /\ ~playing
    /\ ev.steps = 0
    /\ SentFrames = <<>>
    /\ ev.act # "frame"

C8_Witness ==
  /\ gh.stopped /\ ev.act = "resume" /\ ev.was.t < 0

\* C9 (as stated): while the session is paused with an engine loaded no
\* step is made, the simulation time does not change, and no frame is sent
\* but the one of a reset, until a resume or a start is handled.
C9_PausedTimeUnchanged ==
  (~ev.was.playing /\ ev.was.t >= 0 /\ ev.act # "start") =>
    /\ ev.steps = 0
    /\ engine # None => SimTime(engine) = ev.was.t
    /\ SentFrames # <<>> => ev.act = "reset"

\* C9 (amended): while the session is paused with an engine loaded no step
\* is made and the simulation time does not advance: it stays, or a reset
\* puts it back to 0 and sends the one frame of time 0; no other frame is
\* sent until a resume or a start is handled.
C9_PausedNeverAdvances ==
  (~ev.was.playing /\ ev.was.t >= 0 /\ ev.act # "start") =>
    /\ ev.steps = 0
    /\ ev.act # "frame"
    /\ (engine # None /\ ev.act # "reset") => SimTime(engine) = ev.was.t
    /\ (engine # None /\ ev.act = "reset") =>
         (SimTime(engine) = 0 /\ Len(SentFrames) = 1 /\ SentFrames[1].t = 0)
    /\ SentFrames # <<>> => ev.act = "reset"

C9_Witness ==
  /\ ~ev.was.playing /\ ev.was.t > 0 /\ ev.act = "reset"
  /\ engine # None /\ SimTime(engine) = 0

\* C10 (as stated): when engine.step raises in the stepping block an error
\* is sent and the session stops playing, and a faulted simulation is never
\* stepped again: only a start or a reset, which replace it, lead to steps.
C10_FaultedNeverSteppedAgain ==
  /\ (ev.act = "frame" /\ IsFaulted(engine) /\ ~ev.was.faulted) =>
       (SentError /\ ~playing)
  /\ ev.steps > 0 => ~ev.was.faulted

\* C11 (as stated): a start whose scenario generation fails sends an error,
\* creates no engine and leaves the engine, playing, the speed multiplier,
\* fps and steps_per_frame as they were before the message.
C11_FailedStartChangesNothing ==
  [][ (ev'.act = "start" /\ ev'.exit = "continue" /\ pending' = pending - 1)
      => /\ SentError'
         /\ engine' = engine
         /\ playing' = playing
         /\ speed_multiplier' = speed_multiplier
         /\ fps' = fps
         /\ steps_per_frame' = steps_per_frame ]_vars

\* C12 (as stated): every body that a start has registered with the
\* integrator from a scenario's body list has a speed, relative to the
\* scenario's primary, of at least 0.3 * v_circ and at most 1.5 * v_esc, as
\* the velocity validator leaves it.
C12_LoadedBodiesAreSafe ==
  (engine # None /\ SimTime(engine) >= 0) =>
    LET ps == engine.sim.particles
    IN \A k \in 2..Len(ps) :
         ("m" \in DOMAIN ps[k] /\ "m" \in DOMAIN ps[1]) =>
           LET dx == ps[k].x - ps[1].x
               dy == ps[k].y - ps[1].y
               r == ISqrt(dx * dx + dy * dy)
               v == Norm(ps[k].vx - ps[1].vx, ps[k].vy - ps[1].vy)
           IN r > 0 =>
                /\ ~Below(v, circular_orbit_velocity(ps[1].m, r), 3, 10)
                /\ ~Above(v, escape_velocity(ps[1].m, r), 15, 10)

\* C13 (as stated): no engine is loaded, on the start path or by POST
\* /api/simulate, from a scenario whose body list is missing or empty, that
\* has a body of non-positive mass, or a body with |x| or |y| above 1e6.
C13_InvalidScenarioNeverLoaded ==
  (ev.act \in {"start", "simulate"} /\ engine # None
     /\ "bodies" \in DOMAIN ev.scenario) =>
    LET bs == ev.scenario.bodies
    IN /\ Len(bs) > 0
       /\ \A i \in 1..Len(bs) :
            /\ Get(bs[i], "mass", 0) > 0
            /\ Abs(Get(bs[i], "x", 0)) <= 1000000
            /\ Abs(Get(bs[i], "y", 0)) <= 1000000

\* C14: get_orbital_elements raises nothing and leaves the engine as it was;
\* on an unloaded engine or one with fewer than two bodies it returns the
\* empty list; otherwise it returns one entry per non-primary body, in body
\* order and under the body's name, each either an element record or a
\* {name, error} record, and the entry of a body whose orbit is defined is
\* the same whichever other bodies' orbits failed.
C14_OneEntryPerBody ==
  ev.act = "get_orbital_elements" =>
    /\ ev.raised = ""
    /\ engine = ev.pre
    /\ IF ev.pre.sim = None THEN ev.result = <<>>
       ELSE IF Len(ev.pre.sim.particles) < 2 THEN ev.result = <<>>
       ELSE LET N == Len(ev.pre.sim.particles)
                alone == get_orbital_elements(ev.pre, {})
            IN /\ Len(ev.result) = N - 1
               /\ \A j \in 1..(N - 1) :
                    /\ "name" \in DOMAIN ev.result[j]
                    /\ j + 1 <= Len(ev.pre.body_info) =>
                         ev.result[j].name = ev.pre.body_info[j + 1].name
                    /\ IF (j + 1) \in ev.arg
                       THEN DOMAIN ev.result[j] = {"name", "error"}
                       ELSE /\ DOMAIN ev.result[j] = {"name", "orbit"}
                            /\ ev.result[j] = alone[j]

\* Three bodies, the first non-primary body's orbit failed, the second's is
\* returned.
C14_Witness ==
  /\ ev.act = "get_orbital_elements"
  /\ ev.pre.sim # None
  /\ ev.arg = {2}
  /\ Len(ev.result) = 2
  /\ "error" \in DOMAIN ev.result[1]
  /\ "orbit" \in DOMAIN ev.result[2]

\* C15: get_trajectories leaves the engine exactly as it was (simulation
\* time, every particle, E0, body_info, t_per_frame and the rest), whether
\* it returns or raises, so the step that follows has the outcomes it would
\* have had without the call.
C15_TrajectoriesLeaveEngineAlone ==
  ev.act = "get_trajectories" =>
    /\ engine = ev.pre
    /\ step(engine, 1) = step(ev.pre, 1)
    /\ get_frame(engine) = get_frame(ev.pre)

\* A preview of a loaded engine that has been stepped, sampled beyond the
\* current time.
C15_Witness ==
  /\ ev.act = "get_trajectories"
  /\ ev.raised = ""
  /\ ev.pre.sim # None
  /\ ev.pre.sim.t > 0
  /\ Len(ev.result) >= 2
  /\ Len(ev.result[1]) = 2
  /\ ev.result[1][2].at > ev.pre.sim.t
  /\ engine.sim.t = ev.pre.sim.t

\* C16 (as stated): get_trajectories with n_points >= 1 on a loaded engine
\* returns one sequence per body, each of n_points samples, and the last
\* sample is taken at the current time plus duration.
C16_LastSampleAtDuration ==
  (ev.act = "get_trajectories" /\ ev.raised = "" /\ ev.pre.sim # None
     /\ ev.arg.n_points >= 1) =>
    /\ Len(ev.result) = Len(ev.pre.sim.particles)
    /\ \A i \in 1..Len(ev.result) :
         /\ Len(ev.result[i]) = ev.arg.n_points
         /\ ev.result[i][ev.arg.n_points].at = ev.pre.sim.t + ev.arg.duration

\* C17: when load_scenario(s) returns, the simulation is at time 0 with the
\* bodies of s registered in list order, E0 is the energy of that state and
\* the returned frame is the frame of that state with energy_drift 0, the
\* stored initial scenario is s, and nothing of the engine's earlier state
\* is left; and a reset of an engine whose stored scenario is s, whatever
\* steps, speed changes, previews or failed loads came in between, gives
\* exactly the engine and the frame that load_scenario(s) gives.
C17_LoadThenResetReproduces ==
  /\ (ev.act = "load_scenario" /\ ev.raised = "") =>
       /\ engine.sim.t = 0
       /\ Len(engine.sim.particles) = Len(ev.arg.bodies)
       /\ \A i \in 1..Len(ev.arg.bodies) :
            /\ engine.sim.particles[i] = Particle(ev.arg.bodies[i])
            /\ engine.body_info[i] = BodyInfo(ev.arg.bodies[i], i)
       /\ engine.E0 = energy(engine.sim)
       /\ ev.result = get_frame(engine)
       /\ ev.result.t = 0
       /\ ev.result.N = Len(ev.arg.bodies)
       /\ ev.result.energy_drift = 0
       /\ engine.initial_scenario = ev.arg
       /\ engine = load_scenario(NewEngine, ev.arg).eng
  /\ (ev.act = "reset" /\ ev.pre.initial_scenario # None) =>
       ("bodies" \in DOMAIN ev.pre.initial_scenario =>
          /\ ev.raised = ""
          /\ engine = load_scenario(NewEngine, ev.pre.initial_scenario).eng
          /\ ev.result = load_scenario(NewEngine, ev.pre.initial_scenario).frame)

\* A reset of an engine that was loaded from a scenario, then stepped and
\* given another t_per_frame.
C17_Witness ==
  /\ ev.act = "reset"
  /\ ev.pre.initial_scenario # None
  /\ "bodies" \in DOMAIN ev.pre.initial_scenario
  /\ ev.pre.sim # None
  /\ ev.pre.sim.t > 0
  /\ ev.pre.t_per_frame # Get(ev.pre.initial_scenario, "t_per_frame", DefaultTPerFrame)
  /\ engine.sim.t = 0
  /\ engine.t_per_frame = Get(ev.pre.initial_scenario, "t_per_frame", DefaultTPerFrame)

\* C18: validating, with auto_fix on, the scenario that a validation with
\* auto_fix on returned finds nothing: ok is true, there is no issue, the
\* counts (where the result has them: it has none for fewer than two bodies)
\* are 0, and the bodies returned are the bodies given.
C18_SecondPassFindsNothing ==
  (ev.act = "revalidate" /\ ev.after_fix) =>
    /\ ev.result.ok
    /\ ev.result.issues = <<>>
    /\ "stats" \in DOMAIN ev.result =>
         /\ ev.result.stats.issues_found = 0
         /\ ev.result.stats.issues_fixed = 0
    /\ Get(ev.result.scenario, "bodies", <<>>) = Get(ev.arg, "bodies", <<>>)

\* A second pass over a scenario in which the first pass rewrote a body at
\* radius 4 (where dividing by the radius matters).
C18_Witness ==
  /\ ev.act = "revalidate"
  /\ ev.after_fix
  /\ "stats" \in DOMAIN ev.first
  /\ ev.first.stats.issues_fixed > 0
  /\ \E k \in 2..Len(ev.arg.bodies) :
       /\ Get(ev.arg.bodies[k], "x", 0) * Get(ev.arg.bodies[k], "x", 0)
            + Get(ev.arg.bodies[k], "y", 0) * Get(ev.arg.bodies[k], "y", 0) = 16
  /\ ev.result.ok

\* C19 (as stated): for every body whose velocity the validator rewrites,
\* the sign of x*vy - y*vx is the same after the correction as before it.
C19_SensePreserved ==
  (ev.act = "validate" /\ ev.auto_fix /\ "stats" \in DOMAIN ev.result) =>
    \A k \in 2..Len(ev.arg.bodies) :
      LET L(b) == Get(b, "x", 0) * Get(b, "vy", 0) - Get(b, "y", 0) * Get(b, "vx", 0)
          sign(n) == IF n > 0 THEN 1 ELSE IF n < 0 THEN -1 ELSE 0
          before == ev.arg.bodies[k]
          after == ev.result.scenario.bodies[k]
      IN after # before => sign(L(after)) = sign(L(before))

\* C19 (amended): every body whose velocity the validator rewrites ends
\* counter-clockwise, whatever its sense was before: x*vy - y*vx is positive
\* after the correction when the primary's mass is positive (and zero, the
\* body at rest, when it is not).  A counter-clockwise body keeps its sense;
\* a clockwise body, or one with no angular momentum, is turned
\* counter-clockwise.
C19_CorrectedIsCounterClockwise ==
  (ev.act = "validate" /\ ev.auto_fix /\ "stats" \in DOMAIN ev.result) =>
    \A k \in 2..Len(ev.arg.bodies) :
      LET L(b) == Get(b, "x", 0) * Get(b, "vy", 0) - Get(b, "y", 0) * Get(b, "vx", 0)
          before == ev.arg.bodies[k]
          after == ev.result.scenario.bodies[k]
      IN after # before =>
           IF Get(ev.arg.bodies[1], "mass", 1) > 0
           THEN L(after) > 0
           ELSE L(after) = 0 /\ after.vx = 0 /\ after.vy = 0

\* A clockwise body off the axes, rewritten to counter-clockwise.
C19_Witness ==
  /\ ev.act = "validate"
  /\ ev.auto_fix
  /\ "stats" \in DOMAIN ev.result
  /\ \E k \in 2..Len(ev.arg.bodies) :
       LET L(b) == Get(b, "x", 0) * Get(b, "vy", 0) - Get(b, "y", 0) * Get(b, "vx", 0)
       IN /\ ev.result.scenario.bodies[k] # ev.arg.bodies[k]
          /\ Get(ev.arg.bodies[k], "x", 0) # 0
          /\ Get(ev.arg.bodies[k], "y", 0) # 0
          /\ L(ev.arg.bodies[k]) < 0
          /\ L(ev.result.scenario.bodies[k]) > 0

C21_FlaggedIffRatioOutside ==
  (ev.act = "validate" /\ "stats" \in DOMAIN ev.result) =>
    \A k \in 2..Len(ev.arg.bodies) :
      LET b == ev.arg.bodies[k]
          x == Get(b, "x", 0)
          y == Get(b, "y", 0)
          r == ISqrt(x * x + y * y)
          v == Norm(Get(b, "vx", 0), Get(b, "vy", 0))
          v_circ == circular_orbit_velocity(Get(ev.arg.bodies[1], "mass", 1), r)
          name == Get(b, "name", <<"Body", k - 1>>)
          flagged == \E j \in 1..Len(ev.result.issues) :
                       ev.result.issues[j].name = name
          outside == Below(v, v_circ, 7, 10) \/ Above(v, v_circ, 14, 10)
      IN (r > 0 /\ v_circ.num > 0) =>
           /\ flagged <=> outside
           /\ ~outside => ev.result.scenario.bodies[k] = b

\* C21 (amended): a non-primary body at positive radius around a primary of
\* positive mass is found too slow when its speed is below 0.3 v_circ, else
\* too fast when its speed is above 1.5 v_esc, else suspicious when its speed
\* is below 0.5 v_circ or above 1.5 v_circ; every other body has no finding
\* and is returned unchanged.  So a body is flagged exactly when the ratio of
\* its speed to v_circ is outside [0.5, 1.5]: the bounds 0.7 and 1.4 decide
\* nothing.
C21_FlaggedIffDeviationOverHalf ==
  (ev.act = "validate" /\ "stats" \in DOMAIN ev.result) =>
    \A k \in 2..Len(ev.arg.bodies) :
      LET b == ev.arg.bodies[k]
          x == Get(b, "x", 0)
          y == Get(b, "y", 0)
          r == ISqrt(x * x + y * y)
          v == Norm(Get(b, "vx", 0), Get(b, "vy", 0))
          M == Get(ev.arg.bodies[1], "mass", 1)
          v_circ == circular_orbit_velocity(M, r)
          v_esc == escape_velocity(M, r)
          name == Get(b, "name", <<"Body", k - 1>>)
          kinds == { ev.result.issues[j].kind :
                       j \in { i \in 1..Len(ev.result.issues) :
                                 ev.result.issues[i].name = name } } \ {"FIXED"}
          slow == Below(v, v_circ, 3, 10)
          fast == ~slow /\ Above(v, v_esc, 15, 10)
          odd == ~slow /\ ~fast
                   /\ (Below(v, v_circ, 5, 10) \/ Above(v, v_circ, 15, 10))
      IN (r > 0 /\ v_circ.num > 0) =>
           /\ kinds = (IF slow THEN {"TOO SLOW"} ELSE {})
                        \cup (IF fast THEN {"TOO FAST"} ELSE {})
                        \cup (IF odd THEN {"SUSPICIOUS"} ELSE {})
           /\ (kinds # {}) <=> (Below(v, v_circ, 5, 10) \/ Above(v, v_circ, 15, 10))
           /\ kinds = {} => ev.result.scenario.bodies[k] = b

\* A body at 0.6 of v_circ (speed 6 where v_circ is 10): outside [0.7, 1.4]
\* and accepted unchanged.
C21_Witness ==
  /\ ev.act = "validate"
  /\ "stats" \in DOMAIN ev.result
  /\ Len(ev.arg.bodies) = 2
  /\ Get(ev.arg.bodies[1], "mass", 1) = 1
  /\ Get(ev.arg.bodies[2], "x", 0) = 1
  /\ Get(ev.arg.bodies[2], "y", 0) = 0
  /\ Get(ev.arg.bodies[2], "vy", 0) = 6
  /\ Get(ev.arg.bodies[2], "vx", 0) = 0
  /\ ev.result.issues = <<>>
  /\ ev.result.scenario.bodies[2] = ev.arg.bodies[2]

\* C22 (as stated): after the call every object of the input (the scenario
\* dict, its body list, each body dict) is as it was, the scenario returned
\* is not the input dict, and it stays so when the caller then modifies the
\* returned scenario dict or its body list.
C22_InputNeverShared ==
  ev.act \in {"validated", "modified"} =>
    /\ ev.result.scenario.ref # 1
    /\ \A a \in DOMAIN ev.input : ev.heap[a] = ev.input[a]

\* C23 (as stated): the radius the validator uses for a non-primary body is
\* the body's distance from the primary: the body is classified by v_circ
\* and v_esc at that distance, and a rewritten body has the speed v_circ of
\* that distance.
C23_RadiusIsDistanceFromPrimary ==
  (ev.act = "validate" /\ ev.auto_fix /\ ev.arg.name \in {"Pair", "Binary"}) =>
    LET p == ev.arg.bodies[1]
        b == ev.arg.bodies[2]
        d == ISqrt((b.x - p.x) * (b.x - p.x) + (b.y - p.y) * (b.y - p.y))
        v_circ == circular_orbit_velocity(p.mass, d)
        v_esc == escape_velocity(p.mass, d)
        kind == problem_of(Norm(b.vx, b.vy), v_circ, v_esc)
        after == ev.result.scenario.bodies[2]
    IN d > 0 =>
         /\ (kind = "") <=> (ev.result.issues = <<>>)
         /\ kind # "" => ev.result.issues[1].kind = kind
         /\ after # b =>
              (after.vx * after.vx + after.vy * after.vy) * v_circ.den = v_circ.num

\* C24 (as stated): smart_validate_scenario and fix_scenario_velocities
\* never rewrite the most massive body, whatever its index, and a body they
\* rewrite gets the v_circ of the maximum body mass at its radius.
C24_RelativeToMostMassive ==
  (ev.act = "smart" /\ "stats" \in DOMAIN ev.result) =>
    LET bodies == ev.arg.bodies
        mass(i) == Get(bodies[i], "mass", 0)
        top == CHOOSE i \in 1..Len(bodies) : \A j \in 1..Len(bodies) :
                 mass(j) < mass(i) \/ (mass(j) = mass(i) /\ i <= j)
    IN /\ ev.result.scenario.bodies[top] = bodies[top]
       /\ ev.fixed.bodies[top] = bodies[top]
       /\ \A k \in 1..Len(bodies) :
            LET b == bodies[k]
                after == ev.fixed.bodies[k]
                r == ISqrt(Get(b, "x", 0) * Get(b, "x", 0)
                             + Get(b, "y", 0) * Get(b, "y", 0))
                v_circ == circular_orbit_velocity(Get(bodies[top], "mass", 1), r)
            IN after # b =>
                 (after.vx * after.vx + after.vy * after.vy) * v_circ.den
                   = v_circ.num

\* C25 (as stated): for a transfer between two equal radii the planner
\* returns a result with delta_v1 = 0, delta_v2 = 0, total delta-v 0 and
\* transfer time 0.
C25_EqualRadiiAllZero ==
  (ev.act = "hohmann" /\ ev.body1 \in DOMAIN SOLAR_SYSTEM
     /\ ev.body2 \in DOMAIN SOLAR_SYSTEM
     /\ SOLAR_SYSTEM[ev.body1].a = SOLAR_SYSTEM[ev.body2].a) =>
    /\ ev.result # None
    /\ IsZero(ev.result.delta_v1)
    /\ IsZero(ev.result.delta_v2)
    /\ IsZero(ev.result.total_delta_v[1]) /\ IsZero(ev.result.total_delta_v[2])
    /\ ev.result.transfer_days.num = 0

\* C28 (as stated): whenever the engine has a simulation, also after a
\* load_scenario or reset that raised part-way, it has as many body_info
\* entries as the simulation has particles.
C28_OneInfoPerParticle ==
  engine.sim # None => Len(engine.body_info) = Len(engine.sim.particles)

\* C29 (as stated): after an 'error' reported for a bad control input (a text
\* that is not JSON, a set_speed that raises, a start whose scenario fails to
\* load) the control loop is still running.
C29_LoopSurvivesBadInput ==
  (ev.act \in {"bad_json", "set_speed", "start"} /\ SentError) => pc # "closed"

\* C30: while playing is true there is an engine and it has a simulation.
C30_PlayingHasLoadedEngine ==
  playing => (engine # None /\ engine.sim # None)

\* A paused session with an engine has handled 'resume' and is playing.
C30_Witness ==
  /\ ev.act = "resume" /\ ~ev.was.playing
  /\ playing /\ engine # None /\ engine.sim # None

\* C26: with two sessions on one server, whatever one session does (a control
\* message handled, a frame stepped) leaves the other's engine state (time,
\* bodies, t_per_frame, stored initial scenario), playing flag, speed
\* multiplier and frames as they were, also when both engines were loaded
\* from the same built-in scenario.
C26_SessionsIndependent ==
  ev.act # "init" => Observed(3 - ev.who) = ev.other

\* Both sessions hold the same built-in dict, the other one is playing, and
\* this one has just reset, changed its speed or stepped a frame.
C26_Witness ==
  /\ ev.act \in {"reset", "set_speed", "frame"}
  /\ AliasOf(ev.L[1]) = "earth moon" /\ AliasOf(ev.L[2]) = "earth moon"
  /\ ev.L[3 - ev.who].playing
  /\ ev.L[ev.who].engine.t_per_frame # ev.L[3 - ev.who].engine.t_per_frame

====
